---------------------------- MODULE Spec2Model ----------------------------
(***************************************************************************)
(* FinanceTubeAI render API: the asynchronous render-job engine.           *)
(*                                                                         *)
(* The model follows src/index.js lines 1-292 (v3.4.0-PRODUCTION) and      *)
(* src/unnamed/part_003 (v3.3.1-FINAL), which share their structure:       *)
(*   - POST /api/merge validates, writes the two scratch inputs, inserts   *)
(*     the registry entry, answers, and starts processVideo;               *)
(*   - processVideo awaits the encoder (child process, 420000 ms timeout), *)
(*     validates the output file and writes the terminal record;           *)
(*   - cleanupOldJobs runs every 900000 ms (age sweep, capacity purge);    *)
(*   - GET /api/status/:id reads the registry.                             *)
(*                                                                         *)
(* JavaScript runs one synchronous turn at a time: `cur` holds the turn    *)
(* that is executing.  The steps of the merge handler are separate         *)
(* actions so that the order of its statements is visible in the states;   *)
(* no other turn starts while cur is not idle.  A turn takes no time: the  *)
(* encoder, an operating-system process, writes its output and exits       *)
(* between turns, and so does the clock advance.  `res` is the response    *)
(* object of the request being handled; it is gone when the handler        *)
(* returns.                                                                *)
(*                                                                         *)
(* Time is the value of Date.now().  It advances from one timer deadline   *)
(* to the next (the next setInterval tick, the timeout of a running        *)
(* encoder) and never passes a deadline whose timer has not fired.         *)
(*                                                                         *)
(* The filesystem is reliable in these specifications: writeFileSync and   *)
(* unlinkSync on the server's own directories succeed.                     *)
(***************************************************************************)
EXTENDS Integers, Sequences, FiniteSets, TLC

VARIABLES
    version,    \* which server is running: "3.4.0" or "3.3.1"
    now,        \* Date.now(), in ms
    nextTick,   \* when the setInterval timer of cleanupOldJobs fires next
    videoJobs,  \* the Map videoJobs: id -> job record
    jobOrder,   \* the insertion order of the Map's keys
    videoDir,   \* VIDEO_DIR: id -> size in bytes of <id>.mp4, for the files present
    tmpDir,     \* TMP_DIR: the set of <<id, extension>> of the files present
    nextId,     \* the next id uuidv4() gives to a job (ids are unique)
    cur,        \* the synchronous turn that is executing
    task,       \* the processVideo calls made: id -> [pc, started, ...]
    enc,        \* the encoder child process of each call: id -> state
    responded,  \* ids whose "processing" response has been sent
    evicted,    \* ids cleanupOldJobs has deleted from the registry
    res         \* the response sent by the request handler that is executing

vars == <<version, now, nextTick, videoJobs, jobOrder, videoDir, tmpDir,
          nextId, cur, task, enc, responded, evicted, res>>

-----------------------------------------------------------------------------
(* Bounds of the model *)

\* Jobs submitted in one behaviour (accepted POST /api/merge requests)
MaxJobs == 2
\* Date.now() does not pass StartTime + MaxTicks * CLEANUP_INTERVAL
MaxTicks == 5
\* Date.now() when the server starts
StartTime == 1000
\* entries, besides the job in flight, of the loaded registry of SpecLoaded
Preloaded == 99

-----------------------------------------------------------------------------
(* Program constants *)

MAX_JOB_AGE == 3600000
MAX_ACTIVE_JOBS == 100
CLEANUP_INTERVAL == 900000
EXEC_TIMEOUT == 420000
MIN_INPUT_BYTES == 1000
SIZE_FLOOR_340 == 200000
SIZE_FLOOR_331 == 150000

Versions == {"3.4.0", "3.3.1"}

SizeFloor(v) == IF v = "3.4.0" THEN SIZE_FLOOR_340 ELSE SIZE_FLOOR_331

\* JavaScript's null and undefined, as they appear in a record
NULL == "null"
UNDEFINED == "undefined"

\* Math.round(n / d) for n >= 0, d > 0
RoundDiv(n, d) == (2 * n + d) \div (2 * d)

\* Math.floor(n / d) for n >= 0, d > 0
FloorDiv(n, d) == n \div d

-----------------------------------------------------------------------------
(* Inputs *)

\* A request field: absent (or the empty string), or a base64 string with
\* its decoded length, or a value that is not a string (Buffer.from throws).
Absent == [present |-> FALSE, isString |-> TRUE, len |-> 0]
Payload(n) == [present |-> TRUE, isString |-> TRUE, len |-> n]
NonString == [present |-> TRUE, isString |-> FALSE, len |-> 0]
Payloads == {Absent, NonString, Payload(MIN_INPUT_BYTES - 1), Payload(MIN_INPUT_BYTES)}

\* caption: the texts submitted (an absent caption is "")
Captions == {"Hi"}

\* Sizes the encoder leaves in its output file: around the floor of the
\* running server
OutputSizes(v) == {SizeFloor(v) - 1, SizeFloor(v)}

\* The ids uuidv4() returns in a behaviour are FirstId, FirstId + 1, ...;
\* the ids up to Preloaded name the entries of the loaded registry.
FirstId == Preloaded + 1

\* An id uuidv4() never returns
UnknownId == 0

Idle == [op |-> "idle"]

\* No response object: no request handler is executing, or none was sent yet
NoReply == [code |-> 0, body |-> [error |-> "none"]]


-----------------------------------------------------------------------------
(* The Map videoJobs *)

Has(id) == id \in DOMAIN videoJobs

\* videoJobs.set(id, rec): a new key goes to the end of the insertion order,
\* an existing key keeps its place.
MapSet(id, rec) ==
    /\ videoJobs' = (id :> rec) @@ videoJobs
    /\ jobOrder' = IF Has(id) THEN jobOrder ELSE Append(jobOrder, id)

-----------------------------------------------------------------------------
(* POST /api/merge *)

MissingReply(image, audio) ==
    [code |-> 400,
     body |-> [error |-> "Missing base64 image or audio",
               received |-> [hasImage |-> image.present, hasAudio |-> audio.present]]]

InvalidBase64Reply(v) ==
    [code |-> 400,
     body |-> [error |-> IF v = "3.4.0" THEN "Invalid base64" ELSE "Invalid base64 encoding"]]

TooSmallReply(v) ==
    [code |-> 400,
     body |-> [error |-> IF v = "3.4.0" THEN "File too small" ELSE "Input file too small"]]

InputMissing_ImageOnly(image, audio) == ~image.present

\* !image || !audio: a field is undefined, null or the empty string
InputMissing(image, audio) == ~image.present \/ ~audio.present

InputsLargeEnough_ImageOnly(image, audio) == ~(image.len < MIN_INPUT_BYTES)

\* The decoded buffers pass the size floor of the inputs
InputsLargeEnough(image, audio) ==
    ~(image.len < MIN_INPUT_BYTES \/ audio.len < MIN_INPUT_BYTES)

ProcessingRecord_WithUrl(v, image, audio, caption) ==
    [status |-> "processing", createdAt |-> now,
     imageSizeKB |-> RoundDiv(image.len, 1024),
     audioSizeKB |-> RoundDiv(audio.len, 1024),
     caption |-> IF caption = "" THEN NULL ELSE caption,
     url |-> "/videos/" \o ToString(nextId - 1) \o ".mp4"]

\* The entry inserted at submission
ProcessingRecord(v, image, audio, caption) ==
    IF v = "3.4.0"
    THEN [status |-> "processing", createdAt |-> now,
          imageSizeKB |-> RoundDiv(image.len, 1024),
          audioSizeKB |-> RoundDiv(audio.len, 1024),
          caption |-> IF caption = "" THEN NULL ELSE caption]
    ELSE [status |-> "processing", createdAt |-> now,
          imageSizeKB |-> RoundDiv(image.len, 1024),
          audioSizeKB |-> RoundDiv(audio.len, 1024)]

ProcessingReply(id) ==
    [code |-> 200,
     body |-> [status |-> "processing", video_id |-> id,
               check_url |-> "/videos/" \o ToString(id) \o ".mp4",
               status_url |-> "/api/status/" \o ToString(id)]]

Rejected == [op |-> "merge", pc |-> "return"]

MintedId_Fixed == FirstId

\* const id = uuidv4()
MintedId == nextId

\* The handler up to the size check: a 400 reply ends the request.  The id
\* uuidv4() returns for a request that the decoding or the size check rejects
\* is only logged; nextId counts the ids given to jobs.
MergeReceive(image, audio, caption) ==
    /\ cur.op = "idle"
    /\ IF InputMissing(image, audio)
       THEN /\ res' = MissingReply(image, audio)
            /\ cur' = Rejected
            /\ UNCHANGED nextId
       ELSE IF ~image.isString \/ ~audio.isString
       THEN /\ res' = InvalidBase64Reply(version)
            /\ cur' = Rejected
            /\ UNCHANGED nextId
       ELSE IF ~InputsLargeEnough(image, audio)
       THEN /\ res' = TooSmallReply(version)
            /\ cur' = Rejected
            /\ UNCHANGED nextId
       ELSE /\ nextId < FirstId + MaxJobs
            /\ nextId' = nextId + 1
            /\ cur' = [op |-> "merge", pc |-> "write", id |-> MintedId,
                       image |-> image, audio |-> audio, caption |-> caption]
            /\ UNCHANGED res
    /\ UNCHANGED <<version, now, nextTick, videoJobs, jobOrder, videoDir, tmpDir,
                   task, enc, responded, evicted>>

AtMerge(pc) == cur.op = "merge" /\ cur.pc = pc

NextPc_RespondFirst(pc) ==
    CASE pc = "write" -> "respond"
      [] pc = "respond" -> "set"
      [] pc = "set" -> "process"
      [] pc = "process" -> "return"

NextPc_ProcessFirst(pc) ==
    CASE pc = "write" -> "set"
      [] pc = "set" -> "process"
      [] pc = "process" -> "respond"
      [] pc = "respond" -> "return"

\* The order of the handler's statements once the request is accepted:
\* write the inputs, insert the entry, send the response, call processVideo,
\* return.
NextPc(pc) ==
    CASE pc = "write" -> "set"
      [] pc = "set" -> "respond"
      [] pc = "respond" -> "process"
      [] pc = "process" -> "return"

\* fs.writeFileSync(imgPath, ...); fs.writeFileSync(audPath, ...)
MergeWriteInputs ==
    /\ AtMerge("write")
    /\ tmpDir' = tmpDir \cup {<<cur.id, "jpg">>, <<cur.id, "mp3">>}
    /\ cur' = [cur EXCEPT !.pc = NextPc(cur.pc)]
    /\ UNCHANGED <<version, now, nextTick, videoJobs, jobOrder, videoDir,
                   nextId, task, enc, responded, evicted, res>>

\* videoJobs.set(id, {status: "processing", ...})
MergeSetJob ==
    /\ AtMerge("set")
    /\ MapSet(cur.id, ProcessingRecord(version, cur.image, cur.audio, cur.caption))
    /\ cur' = [cur EXCEPT !.pc = NextPc(cur.pc)]
    /\ UNCHANGED <<version, now, nextTick, videoDir, tmpDir,
                   nextId, task, enc, responded, evicted, res>>

\* res.json({status: "processing", video_id: id, ...})
MergeRespond ==
    /\ AtMerge("respond")
    /\ res' = ProcessingReply(cur.id)
    /\ responded' = responded \cup {cur.id}
    /\ cur' = [cur EXCEPT !.pc = NextPc(cur.pc)]
    /\ UNCHANGED <<version, now, nextTick, videoJobs, jobOrder, videoDir, tmpDir,
                   nextId, task, enc, evicted>>

\* processVideo(id, ...) up to its await: the encoder is started.
MergeStartProcess ==
    /\ AtMerge("process")
    /\ task' = (cur.id :> [pc |-> "await", started |-> now, caption |-> cur.caption]) @@ task
    /\ enc' = (cur.id :> "running") @@ enc
    /\ cur' = [cur EXCEPT !.pc = NextPc(cur.pc)]
    /\ UNCHANGED <<version, now, nextTick, videoJobs, jobOrder, videoDir, tmpDir,
                   nextId, responded, evicted, res>>

\* The handler returns.
MergeReturn ==
    /\ AtMerge("return")
    /\ cur' = Idle
    /\ res' = NoReply
    /\ UNCHANGED <<version, now, nextTick, videoJobs, jobOrder, videoDir, tmpDir,
                   nextId, task, enc, responded, evicted>>

-----------------------------------------------------------------------------
(* The encoder: the child process execPromise starts *)

Running(id) == cur.op = "idle" /\ id \in DOMAIN enc /\ enc[id] = "running"

\* The encoder creates or extends its output file.
EncoderWrite(id, size) ==
    /\ Running(id)
    /\ size \in OutputSizes(version)
    /\ id \in DOMAIN videoDir => videoDir[id] < size
    /\ videoDir' = (id :> size) @@ videoDir
    /\ UNCHANGED <<version, now, nextTick, videoJobs, jobOrder, tmpDir,
                   nextId, cur, task, enc, responded, evicted, res>>

\* The encoder exits by itself, with code 0 or not.
EncoderExit(id, code) ==
    /\ Running(id)
    /\ enc' = [enc EXCEPT ![id] = IF code = 0 THEN "exit0" ELSE "failed"]
    /\ UNCHANGED <<version, now, nextTick, videoJobs, jobOrder, videoDir, tmpDir,
                   nextId, cur, task, responded, evicted, res>>

TimedOut(id) == now - task[id].started >= EXEC_TIMEOUT

\* exec's timeout fires and kills the encoder.
EncoderTimeout(id) ==
    /\ Running(id)
    /\ TimedOut(id)
    /\ enc' = [enc EXCEPT ![id] = "killed"]
    /\ UNCHANGED <<version, now, nextTick, videoJobs, jobOrder, videoDir, tmpDir,
                   nextId, cur, task, responded, evicted, res>>

-----------------------------------------------------------------------------
(* processVideo after its await *)

Floor == SizeFloor(version)

SizeOk_AnySize(size) == TRUE

\* The artifact check: the size passes the floor
SizeOk(size) == ~(size < Floor)

NoError == "none"

Thrown_ExitIgnored(id) ==
    IF id \notin DOMAIN videoDir THEN "Output not created"
    ELSE IF ~SizeOk(videoDir[id]) THEN "File too small"
    ELSE IF ~Has(id) THEN "Cannot read properties of undefined (reading 'createdAt')"
    ELSE NoError

\* What the try block throws, in the order of its statements: the rejection
\* of execPromise (non-zero exit, or killed by the timeout), the existence
\* check, the size check, and the read of videoJobs.get(id).createdAt, which
\* throws a TypeError when the entry is gone.
Thrown(id) ==
    IF enc[id] # "exit0" THEN "Command failed"
    ELSE IF id \notin DOMAIN videoDir
         THEN IF version = "3.4.0" THEN "Output not created"
                                   ELSE "Output file was not created"
    ELSE IF ~SizeOk(videoDir[id])
         THEN IF version = "3.4.0"
              THEN "File too small: " \o ToString(RoundDiv(videoDir[id], 1024)) \o "KB"
              ELSE "Output too small (" \o ToString(videoDir[id]) \o " bytes)"
    ELSE IF ~Has(id) THEN "Cannot read properties of undefined (reading 'createdAt')"
    ELSE NoError

\* The record of the success path
CompleteRecord(id) ==
    IF version = "3.4.0"
    THEN [status |-> "complete", videoId |-> id, size |-> videoDir[id],
          sizeKB |-> RoundDiv(videoDir[id], 1024),
          url |-> "/videos/" \o ToString(id) \o ".mp4",
          processingTime |-> RoundDiv(now - task[id].started, 1000),
          caption |-> IF task[id].caption = "" THEN "FinanceTubeAI" ELSE task[id].caption,
          createdAt |-> videoJobs[id].createdAt]
    ELSE [status |-> "complete", videoId |-> id, size |-> videoDir[id],
          sizeKB |-> RoundDiv(videoDir[id], 1024),
          url |-> "/videos/" \o ToString(id) \o ".mp4",
          processingTime |-> RoundDiv(now - task[id].started, 1000),
          createdAt |-> videoJobs[id].createdAt]

\* videoJobs.get(id)?.createdAt || Date.now()
ErrorCreatedAt(id) ==
    IF Has(id) /\ videoJobs[id].createdAt # 0 THEN videoJobs[id].createdAt ELSE now

ErrorRecord_OnlyLogged(id, message) ==
    [status |-> "processing", createdAt |-> ErrorCreatedAt(id)]

\* The record of the catch block
ErrorRecord(id, message) ==
    IF version = "3.4.0"
    THEN [status |-> "error", error |-> message, createdAt |-> ErrorCreatedAt(id)]
    ELSE [status |-> "error", error |-> message,
          stderr |-> IF enc[id] = "failed" THEN "ffmpeg stderr" ELSE UNDEFINED,
          createdAt |-> ErrorCreatedAt(id)]

OutputRemoved_Kept(id) == videoDir

\* VIDEO_DIR after the catch block: the output is unlinked if it exists.
OutputRemoved(id) == [i \in DOMAIN videoDir \ {id} |-> videoDir[i]]

InputsRemoved_ImageOnly(id) == tmpDir \ {<<id, "jpg">>}

\* TMP_DIR after the finally block: both inputs are unlinked if they exist.
InputsRemoved(id) == tmpDir \ {<<id, "jpg">>, <<id, "mp3">>}

CatchThrown_NoChaining(id) ==
    IF ~Has(id) THEN "Cannot read properties of undefined (reading 'createdAt')"
    ELSE NoError

\* What the catch block throws: nothing.  It reads the entry through optional
\* chaining (videoJobs.get(id)?.createdAt), and its unlinkSync is in a
\* try/catch of its own.
CatchThrown(id) == NoError

\* The continuation of processVideo once the encoder has ended: the try
\* block from the existence check on, the catch block, the finally block.
\* The promise of the call is fulfilled ("done") unless the catch block
\* throws ("rejected": the .catch of the caller logs the error).
ProcessVideoResume(id) ==
    /\ cur.op = "idle"
    /\ id \in DOMAIN task
    /\ task[id].pc = "await"
    /\ enc[id] # "running"
    /\ IF Thrown(id) = NoError
       THEN /\ MapSet(id, CompleteRecord(id))
            /\ UNCHANGED videoDir
            /\ task' = [task EXCEPT ![id].pc = "done"]
       ELSE IF CatchThrown(id) = NoError
       THEN /\ MapSet(id, ErrorRecord(id, Thrown(id)))
            /\ videoDir' = OutputRemoved(id)
            /\ task' = [task EXCEPT ![id].pc = "done"]
       ELSE /\ UNCHANGED <<videoJobs, jobOrder, videoDir>>
            /\ task' = [task EXCEPT ![id].pc = "rejected"]
    /\ tmpDir' = InputsRemoved(id)
    /\ UNCHANGED <<version, now, nextTick, nextId, cur, enc,
                   responded, evicted, res>>

-----------------------------------------------------------------------------
(* cleanupOldJobs *)

Expired_Lenient(job) == now - job.createdAt > MAX_JOB_AGE + CLEANUP_INTERVAL

\* now - job.createdAt > MAX_JOB_AGE
Expired(job) == now - job.createdAt > MAX_JOB_AGE

ExpiredIds == {id \in DOMAIN videoJobs : Expired(videoJobs[id])}

\* Array.prototype.sort with (a, b) => a[1].createdAt - b[1].createdAt puts
\* the entries in ascending createdAt; the sort is stable, so entries of equal
\* createdAt keep their insertion order.  SortedPlace is the index, in the
\* sorted array, of the entry at index i of `order`.
SortedPlace_Descending(order, i) ==
    1 + Cardinality({j \in 1 .. Len(order) :
                        \/ videoJobs[order[i]].createdAt - videoJobs[order[j]].createdAt < 0
                        \/ /\ videoJobs[order[i]].createdAt - videoJobs[order[j]].createdAt = 0
                           /\ j < i})

SortedPlace(order, i) ==
    1 + Cardinality({j \in 1 .. Len(order) :
                        \/ videoJobs[order[j]].createdAt - videoJobs[order[i]].createdAt < 0
                        \/ /\ videoJobs[order[j]].createdAt - videoJobs[order[i]].createdAt = 0
                           /\ j < i})

\* slice(0, excess) of the sorted array, as a set of ids
OldestIds(order, excess) ==
    {order[i] : i \in {k \in 1 .. Len(order) : SortedPlace(order, k) <= excess}}

\* The keys left by the age sweep, in insertion order
SweptOrder ==
    LET expired == ExpiredIds
    IN  SelectSeq(jobOrder, LAMBDA id : id \notin expired)

PurgedIds_None == {}

\* The ids the capacity purge deletes: slice(0, excess) of the sorted array
PurgedIds ==
    UNION {IF Len(swept) > MAX_ACTIVE_JOBS
           THEN OldestIds(swept, Len(swept) - MAX_ACTIVE_JOBS)
           ELSE {} : swept \in {SweptOrder}}

SweptVideoDir_Unconditional == [i \in DOMAIN videoDir \ DOMAIN videoJobs |-> videoDir[i]]

\* VIDEO_DIR after the tick: the age sweep unlinks the output of each
\* expired entry.
SweptVideoDir ==
    LET expired == ExpiredIds
    IN  [i \in DOMAIN videoDir \ expired |-> videoDir[i]]

Kept_MarkedStale(deleted) ==
    [i \in DOMAIN videoJobs \ deleted |->
        IF videoJobs[i].status = "processing"
        THEN [videoJobs[i] EXCEPT !.status = "error"]
        ELSE videoJobs[i]]

\* videoJobs after videoJobs.delete(id) of each id of `deleted`: the other
\* entries are not written.
Kept(deleted) == [i \in DOMAIN videoJobs \ deleted |-> videoJobs[i]]

\* One tick of setInterval(cleanupOldJobs, 900000)
CleanupOldJobs ==
    /\ cur.op = "idle"
    /\ now = nextTick
    /\ nextTick' = nextTick + CLEANUP_INTERVAL
    /\ \E deleted \in {ExpiredIds \cup PurgedIds} :
          /\ videoJobs' = Kept(deleted)
          /\ jobOrder' = SelectSeq(jobOrder, LAMBDA id : id \notin deleted)
          /\ evicted' = evicted \cup deleted
    /\ videoDir' = SweptVideoDir
    /\ UNCHANGED <<version, now, tmpDir, nextId, cur, task, enc, responded, res>>

-----------------------------------------------------------------------------
(* GET /api/status/:id *)

StatusReply_WithAge(id) ==
    IF ~Has(id)
    THEN [code |-> 404, body |-> [error |-> "Job not found"]]
    ELSE [code |-> 200,
          body |-> [id |-> id] @@ videoJobs[id] @@
                   [age |-> ToString(FloorDiv(now - videoJobs[id].createdAt, 1000)) \o "s"]]

StatusReply_Unchecked(id) ==
    IF ~Has(id)
    THEN [code |-> 200, body |-> [id |-> id]]
    ELSE [code |-> 200, body |-> [id |-> id] @@ videoJobs[id]]

StatusReply(id) ==
    IF ~Has(id)
    THEN IF version = "3.4.0"
         THEN [code |-> 404, body |-> [error |-> "Job not found"]]
         ELSE [code |-> 404, body |-> [error |-> "Job not found", id |-> id]]
    ELSE IF version = "3.4.0"
         THEN [code |-> 200, body |-> [id |-> id] @@ videoJobs[id]]
         ELSE [code |-> 200,
               body |-> [id |-> id] @@ videoJobs[id] @@
                        [age |-> ToString(FloorDiv(now - videoJobs[id].createdAt, 1000)) \o "s"]]

\* The ids a caller polls: the ids of this behaviour's submissions and an
\* id that names no job
PollIds == {UnknownId} \cup (FirstId .. nextId - 1)

GetStatus(id) ==
    /\ cur.op = "idle"
    /\ id \in PollIds
    /\ res' = StatusReply(id)
    /\ cur' = [op |-> "status", pc |-> "return", id |-> id]
    /\ UNCHANGED <<version, now, nextTick, videoJobs, jobOrder, videoDir, tmpDir,
                   nextId, task, enc, responded, evicted>>

\* The handler returns.
StatusReturn ==
    /\ cur.op = "status"
    /\ cur' = Idle
    /\ res' = NoReply
    /\ UNCHANGED <<version, now, nextTick, videoJobs, jobOrder, videoDir, tmpDir,
                   nextId, task, enc, responded, evicted>>

-----------------------------------------------------------------------------
(* Time *)

Deadlines == {nextTick} \cup {task[id].started + EXEC_TIMEOUT : id \in {i \in DOMAIN enc : enc[i] = "running"}}

NextDeadline == CHOOSE d \in Deadlines : \A e \in Deadlines : d <= e

MaxTime == StartTime + MaxTicks * CLEANUP_INTERVAL

\* The callback of an ended encoder is queued
Pending(id) == task[id].pc = "await" /\ enc[id] # "running"

\* Date.now() moves on to the next timer deadline, once the queued callbacks
\* have run.
AdvanceTime ==
    /\ cur.op = "idle"
    /\ \A id \in DOMAIN task : ~Pending(id)
    /\ now < NextDeadline
    /\ NextDeadline <= MaxTime
    /\ now' = NextDeadline
    /\ UNCHANGED <<version, nextTick, videoJobs, jobOrder, videoDir, tmpDir,
                   nextId, cur, task, enc, responded, evicted, res>>

-----------------------------------------------------------------------------
(* Specifications *)

\* The server after start-up
Fresh(v) ==
    /\ version = v
    /\ now = StartTime
    /\ nextTick = StartTime + CLEANUP_INTERVAL
    /\ videoJobs = <<>>
    /\ jobOrder = <<>>
    /\ videoDir = <<>>
    /\ tmpDir = {}
    /\ nextId = FirstId
    /\ cur = Idle
    /\ task = <<>>
    /\ enc = <<>>
    /\ responded = {}
    /\ evicted = {}
    /\ res = NoReply

Init == Fresh("3.4.0")

\* A registry at its capacity, as MAX_ACTIVE_JOBS submissions made in the
\* instant of a tick leave it when all but the first have completed: the job
\* FirstId is in flight, the jobs 1 .. Preloaded are complete (their
\* processVideo calls are over and left nothing but the entry and the output
\* file), the tick is due.  LoadedTime is the instant of that tick.
LoadedTime == StartTime + (MaxTicks - 1) * CLEANUP_INTERVAL

LoadedRecord(id) ==
    [status |-> "complete", videoId |-> id, size |-> SIZE_FLOOR_340,
     sizeKB |-> RoundDiv(SIZE_FLOOR_340, 1024),
     url |-> "/videos/" \o ToString(id) \o ".mp4",
     processingTime |-> 0, caption |-> "Hi",
     createdAt |-> LoadedTime]

InFlightRecord ==
    [status |-> "processing", createdAt |-> LoadedTime,
     imageSizeKB |-> RoundDiv(MIN_INPUT_BYTES, 1024),
     audioSizeKB |-> RoundDiv(MIN_INPUT_BYTES, 1024),
     caption |-> "Hi"]

InitLoaded ==
    /\ version = "3.4.0"
    /\ now = LoadedTime
    /\ nextTick = LoadedTime
    /\ videoJobs = [id \in 1 .. FirstId |->
                       IF id = FirstId THEN InFlightRecord ELSE LoadedRecord(id)]
    /\ jobOrder = <<FirstId>> \o [i \in 1 .. Preloaded |-> i]
    /\ videoDir = [id \in 1 .. Preloaded |-> SIZE_FLOOR_340]
    /\ tmpDir = {<<FirstId, "jpg">>, <<FirstId, "mp3">>}
    /\ nextId = FirstId + 1
    /\ cur = Idle
    /\ task = (FirstId :> [pc |-> "await", started |-> LoadedTime, caption |-> "Hi"])
    /\ enc = (FirstId :> "running")
    /\ responded = 1 .. FirstId
    /\ evicted = {}
    /\ res = NoReply

InitVersions == \E v \in Versions : Fresh(v)

Next ==
    \/ \E image \in Payloads, audio \in Payloads, caption \in Captions :
          MergeReceive(image, audio, caption)
    \/ MergeWriteInputs
    \/ MergeSetJob
    \/ MergeRespond
    \/ MergeStartProcess
    \/ MergeReturn
    \/ \E id \in DOMAIN enc, size \in OutputSizes(version) : EncoderWrite(id, size)
    \/ \E id \in DOMAIN enc, code \in {0, 1} : EncoderExit(id, code)
    \/ \E id \in DOMAIN enc : EncoderTimeout(id)
    \/ \E id \in DOMAIN task : ProcessVideoResume(id)
    \/ CleanupOldJobs
    \/ \E id \in PollIds : GetStatus(id)
    \/ StatusReturn
    \/ AdvanceTime

\* The v3.4.0 server from start-up
Spec == Init /\ [][Next]_vars

\* The v3.4.0 or the v3.3.1 server from start-up
SpecVersions == InitVersions /\ [][Next]_vars

\* The v3.4.0 server from a registry at its capacity
SpecLoaded == InitLoaded /\ [][Next]_vars

\* The ids of the jobs a behaviour submits
SubmittedIds == FirstId .. (FirstId + MaxJobs - 1)

\* The encoder of job id ends: it exits, or the timeout kills it.
EncoderEnds(id) == (\E code \in {0, 1} : EncoderExit(id, code)) \/ EncoderTimeout(id)

\* A handler that has started runs to its return; the encoder of each job
\* exits or is killed by the timeout; the event loop runs each queued
\* callback.
Fairness ==
    /\ WF_vars(MergeWriteInputs \/ MergeSetJob \/ MergeRespond \/ MergeStartProcess
               \/ MergeReturn \/ StatusReturn)
    /\ \A id \in SubmittedIds : SF_vars(EncoderEnds(id))
    /\ \A id \in SubmittedIds : SF_vars(ProcessVideoResume(id))

\* The v3.4.0 server from start-up, with its scheduling
SpecLive == Init /\ [][Next]_vars /\ Fairness

-----------------------------------------------------------------------------
(* Properties *)

Status(id) == videoJobs[id].status

Terminal(id) == Has(id) /\ Status(id) \in {"complete", "error"}

Finished(id) == id \in DOMAIN task /\ task[id].pc = "done"

\* The step in which the processVideo call of job id finishes
Finishes(id) == id \in DOMAIN task /\ task[id].pc = "await" /\ task'[id].pc = "done"

\* C1: a job is written "complete" only when its encoder exited with code 0,
\* the output file exists and its size is at least the floor of the running
\* server (200000 in v3.4.0, 150000 in v3.3.1); the size recorded is the size
\* of the file, and every complete record has a size of at least the floor.
C1_CompleteOnlyWhenValidated ==
    [][\A id \in DOMAIN videoJobs' :
          videoJobs'[id].status = "complete" =>
             /\ videoJobs'[id].size >= SizeFloor(version)
             /\ ~(Has(id) /\ Status(id) = "complete") =>
                   /\ enc[id] = "exit0"
                   /\ id \in DOMAIN videoDir
                   /\ videoDir[id] >= SizeFloor(version)
                   /\ videoJobs'[id].size = videoDir[id]]_vars

C1_Witness ==
    \E id \in DOMAIN videoJobs :
        /\ version = "3.3.1"
        /\ Status(id) = "complete"
        /\ videoJobs[id].size = SIZE_FLOOR_331
        /\ id \in DOMAIN videoDir

\* C2: the registry entry of a submission is inserted, with status
\* "processing", before its response is sent: from the response on, and until
\* cleanupOldJobs deletes the entry, a status poll for the id does not yield
\* 404.
C2_PollAfterResponseFindsJob ==
    /\ \A id \in responded \ evicted : StatusReply(id).code = 200
    /\ cur.op = "merge" /\ "id" \in DOMAIN cur /\ cur.id \in responded =>
          Has(cur.id) /\ Status(cur.id) = "processing"

C2_Witness ==
    /\ cur.op = "status"
    /\ cur.id \in responded
    /\ res.code = 200
    /\ res.body.status = "processing"

\* C3: the status of an entry changes only from "processing" to "complete" or
\* to "error"; a complete or error entry keeps its status, and no entry is
\* inserted as "processing" for an id that already had a job.
C3_StatusMonotone ==
    [][videoJobs' # videoJobs =>
          \A id \in DOMAIN videoJobs' :
             /\ Has(id) /\ videoJobs'[id].status # Status(id) =>
                   Status(id) = "processing" /\ videoJobs'[id].status \in {"complete", "error"}
             /\ ~Has(id) /\ videoJobs'[id].status = "processing" =>
                   id \notin DOMAIN task /\ id \notin evicted]_vars

C3_Witness ==
    \E id \in evicted : Has(id) /\ Status(id) = "error" /\ Finished(id)

\* C4: an entry has the fields url and size exactly when it is complete, and
\* the field error exactly when it is in error.
C4_FieldsMatchStatus ==
    \A id \in DOMAIN videoJobs :
        /\ "url" \in DOMAIN videoJobs[id] <=> Status(id) = "complete"
        /\ "size" \in DOMAIN videoJobs[id] <=> Status(id) = "complete"
        /\ "error" \in DOMAIN videoJobs[id] <=> Status(id) = "error"

C4_Witness ==
    /\ \E id \in DOMAIN videoJobs : Status(id) = "complete"
    /\ \E id \in DOMAIN videoJobs : Status(id) = "error"

C6_ResponseBeforeEncoder ==
    /\ \A id \in DOMAIN enc : id \in responded
    /\ AtMerge("return") /\ "id" \in DOMAIN cur =>
          /\ cur.id \in responded
          /\ Has(cur.id) /\ Status(cur.id) = "processing"
          /\ cur.id \in DOMAIN task /\ task[cur.id].pc = "await"

C6_Witness ==
    /\ AtMerge("return")
    /\ "id" \in DOMAIN cur
    /\ res = ProcessingReply(cur.id)
    /\ enc[cur.id] = "running"

C8_ProcessingEnds ==
    \A id \in SubmittedIds :
        (Has(id) /\ Status(id) = "processing") ~> (Finished(id) /\ Terminal(id))

C8_Witness ==
    \E id \in SubmittedIds :
        /\ Finished(id)
        /\ Terminal(id)
        /\ \E other \in SubmittedIds : Has(other) /\ Status(other) = "processing"

C10_SizeNeverExceedsCap == Cardinality(DOMAIN videoJobs) <= MAX_ACTIVE_JOBS

\* C10, as amended: when a tick of cleanupOldJobs ends, the registry holds at
\* most MAX_ACTIVE_JOBS entries.
C10_SizeAtMostCapAfterTick ==
    [][nextTick' # nextTick => Cardinality(DOMAIN videoJobs') <= MAX_ACTIVE_JOBS]_vars

C10_Witness ==
    /\ nextTick > now
    /\ evicted # {}
    /\ Cardinality(DOMAIN videoJobs) = MAX_ACTIVE_JOBS
    /\ \A id \in evicted \cap DOMAIN task : now - task[id].started <= MAX_JOB_AGE

\* The entries a step removes from the registry
Removed == DOMAIN videoJobs \ DOMAIN videoJobs'

\* C11: whenever a tick of cleanupOldJobs removes an entry, by the age sweep or
\* by the capacity purge, the output file of the job is absent when the tick
\* ends.
C11_RemovedEntryHasNoFile ==
    [][nextTick' # nextTick => \A id \in Removed : id \notin DOMAIN videoDir']_vars

\* C12: every entry with status "complete" has its output file in VIDEO_DIR
\* (the deletions are those of processVideo and cleanupOldJobs).
C12_CompleteHasFile ==
    \A id \in DOMAIN videoJobs : Status(id) = "complete" => id \in DOMAIN videoDir

C12_Witness ==
    /\ \E id \in DOMAIN videoJobs : Status(id) = "complete" /\ id \in DOMAIN videoDir
    /\ \E id \in evicted : ~Has(id) /\ id \notin DOMAIN videoDir
    /\ nextTick > now

\* The encoder of job id exited 0 and its output passes the existence and size
\* checks of processVideo
OutputValid(id) ==
    /\ enc[id] = "exit0"
    /\ id \in DOMAIN videoDir
    /\ SizeOk(videoDir[id])

\* C13: processVideo never deletes the output file of a job whose encoder
\* exited 0 and whose output passed the existence and size checks, whatever
\* ticks of cleanupOldJobs ran while the job was rendering.
C13_ValidOutputKeptByProcessVideo ==
    [][\A id \in DOMAIN task :
          Finishes(id) /\ OutputValid(id) => id \in DOMAIN videoDir']_vars

\* C14: once cleanupOldJobs has removed the entry of an id, no later step
\* inserts an entry for that id.
C14_EvictedNeverReinserted ==
    [][\A id \in evicted : ~Has(id) => id \notin DOMAIN videoJobs']_vars

\* C15: a job whose encoder exits 0 and whose output file exists with a size of
\* at least 200000 bytes ends with status "complete", whatever ticks of
\* cleanupOldJobs and other submissions interleave with it.
C15_ValidOutputIsComplete ==
    [][\A id \in DOMAIN task :
          Finishes(id) /\ OutputValid(id) =>
             id \in DOMAIN videoJobs' /\ videoJobs'[id].status = "complete"]_vars

C17_TickOnlyDeletes ==
    [][nextTick' # nextTick =>
          \A id \in DOMAIN videoJobs' : Has(id) /\ videoJobs'[id] = videoJobs[id]]_vars

C17_Witness ==
    /\ nextTick > now
    /\ \E id \in evicted : ~Has(id)
    /\ \E id \in DOMAIN videoJobs : Status(id) = "processing" /\ videoJobs[id].createdAt = now

\* C18: every failure after the entry of a job was created (encoder failure,
\* timeout, missing or undersized output) is recorded in the error field of
\* the entry; the step sends no HTTP response (the caller's only response is
\* the earlier "processing" payload), and the promise of processVideo is
\* fulfilled, never rejected.
C18_FailureOnlyInRecord ==
    [][\A id \in DOMAIN task :
          task[id].pc = "await" /\ task'[id].pc # "await" =>
             /\ task'[id].pc = "done"
             /\ res' = res
             /\ responded' = responded
             /\ Thrown(id) # NoError =>
                   /\ id \in DOMAIN videoJobs'
                   /\ videoJobs'[id].status = "error"
                   /\ videoJobs'[id].error = Thrown(id)]_vars

C18_Witness ==
    \E id \in evicted \cap responded :
        /\ Finished(id)
        /\ enc[id] = "killed"
        /\ Has(id)
        /\ videoJobs[id].error = "Command failed"
        /\ res = NoReply

\* The state a request handler may write: the registry, the two directories,
\* the encoders and the processVideo calls
Effects == <<videoJobs, jobOrder, videoDir, tmpDir, task, enc>>

\* The handler of a rejected request returns without another statement.
RejectedReturns ==
    cur = Rejected => cur' = Idle /\ UNCHANGED Effects

\* C19: a POST /api/merge whose image or audio is missing or empty gets status
\* 400 with the message "Missing base64 image or audio" (it contains
\* "Missing"), and the request leaves the registry, TMP_DIR and VIDEO_DIR
\* unchanged and starts no encoder.
C19_MissingInputRejected ==
    [][/\ \A image \in Payloads, audio \in Payloads, caption \in Captions :
             MergeReceive(image, audio, caption) /\ (~image.present \/ ~audio.present) =>
                /\ res'.code = 400
                /\ res'.body.error = "Missing base64 image or audio"
                /\ cur' = Rejected
                /\ UNCHANGED Effects
       /\ RejectedReturns]_vars

C19_Witness ==
    /\ cur = Rejected
    /\ res.code = 400
    /\ res.body.error = "Missing base64 image or audio"
    /\ res.body.received = [hasImage |-> TRUE, hasAudio |-> FALSE]

-----------------------------------------------------------------------------
(* A filesystem whose writes can fail *)

\* res.status(500).json({error: "Server error", details: error.message})
ServerErrorReply ==
    [code |-> 500, body |-> [error |-> "Server error", details |-> "write failed"]]

NextPcOnThrow_Swallowed(pc) == NextPc(pc)

\* A throw in the handler's try block goes to its catch block, which sends
\* the 500 reply and ends the handler.
NextPcOnThrow(pc) == "return"

\* fs.writeFileSync throws: for the image (nothing is written) or for the
\* audio (the image is written already).
MergeWriteFails(which) ==
    /\ AtMerge("write")
    /\ tmpDir' = IF which = "audio" THEN tmpDir \cup {<<cur.id, "jpg">>} ELSE tmpDir
    /\ res' = ServerErrorReply
    /\ cur' = [cur EXCEPT !.pc = NextPcOnThrow(cur.pc)]
    /\ UNCHANGED <<version, now, nextTick, videoJobs, jobOrder, videoDir,
                   nextId, task, enc, responded, evicted>>

NextFaulty == Next \/ \E which \in {"image", "audio"} : MergeWriteFails(which)

\* The v3.4.0 server from start-up, on a filesystem whose writes can fail
SpecFaulty == Init /\ [][NextFaulty]_vars

C22_TerminalPayloadStable ==
    [][\A id \in DOMAIN videoJobs :
          Terminal(id) /\ id \in DOMAIN videoJobs' => StatusReply(id)' = StatusReply(id)]_vars

C22_Witness ==
    /\ cur.op = "status"
    /\ res.code = 200
    /\ res.body.status = "complete"
    /\ now - res.body.createdAt > CLEANUP_INTERVAL

\* The entries the age sweep of a tick keeps
AgeSurvivors == {id \in DOMAIN videoJobs : ~(now - videoJobs[id].createdAt > MAX_JOB_AGE)}

\* C23: when a tick of cleanupOldJobs finds more than MAX_ACTIVE_JOBS entries
\* after the age sweep, it removes exactly size - MAX_ACTIVE_JOBS of them, every
\* removed entry is at least as old (createdAt) as every kept entry, and the
\* registry holds exactly MAX_ACTIVE_JOBS entries when the tick ends.
C23_PurgeRemovesOldest ==
    [][nextTick' # nextTick =>
          \A survivors \in {AgeSurvivors} :
             Cardinality(survivors) > MAX_ACTIVE_JOBS =>
                /\ Cardinality(DOMAIN videoJobs') = MAX_ACTIVE_JOBS
                /\ DOMAIN videoJobs' \subseteq survivors
                /\ Cardinality(survivors \ DOMAIN videoJobs')
                      = Cardinality(survivors) - MAX_ACTIVE_JOBS
                /\ \A r \in survivors \ DOMAIN videoJobs', k \in DOMAIN videoJobs' :
                      videoJobs[r].createdAt <= videoJobs[k].createdAt]_vars

C23_Witness ==
    /\ nextTick > now
    /\ Cardinality(DOMAIN videoJobs) = MAX_ACTIVE_JOBS
    /\ \E r \in evicted : ~Has(r) /\ r \in DOMAIN videoDir
    /\ \E k \in DOMAIN videoJobs : videoJobs[k].createdAt > LoadedTime

\* C24: the encoder is started at most once per job id: an encoder that has
\* ended is never running again, and an encoder is started only for an id that
\* had no encoder and no processVideo call before.
C24_EncoderStartedOnce ==
    [][\A id \in DOMAIN enc' :
          enc'[id] = "running" =>
             IF id \in DOMAIN enc
             THEN enc[id] = "running" /\ task'[id] = task[id]
             ELSE id \notin DOMAIN task]_vars

C24_Witness ==
    \E id \in DOMAIN enc :
        /\ enc[id] = "failed"
        /\ Finished(id)
        /\ Has(id)
        /\ Status(id) = "error"
        /\ now - task[id].started > CLEANUP_INTERVAL

\* C25: after its creation at submission, the entry of job X is written only
\* by the processVideo call of X: no step of another job and no later
\* submission changes it or inserts it again.
C25_OnlyOwnTaskWrites ==
    [][\A id \in DOMAIN videoJobs' :
          \/ Has(id) /\ videoJobs'[id] # videoJobs[id]
          \/ ~Has(id) /\ (id \in DOMAIN task \/ id \in evicted)
          => Finishes(id)]_vars

C25_Witness ==
    \E x \in DOMAIN videoJobs, y \in DOMAIN videoJobs :
        /\ x # y
        /\ Status(x) = "complete"
        /\ Finished(x)
        /\ Status(y) = "processing"
        /\ y \in DOMAIN task
        /\ Pending(y)

-----------------------------------------------------------------------------
(* The server restarted with an output file of the earlier process on disk *)

\* The id of a job of the earlier process: its output file is in VIDEO_DIR,
\* written before this process started, and the new registry has no entry
\* for it.
OrphanId == UnknownId

InitRestart ==
    /\ version = "3.4.0"
    /\ now = StartTime
    /\ nextTick = StartTime + CLEANUP_INTERVAL
    /\ videoJobs = <<>>
    /\ jobOrder = <<>>
    /\ videoDir = (OrphanId :> SIZE_FLOOR_340)
    /\ tmpDir = {}
    /\ nextId = FirstId
    /\ cur = Idle
    /\ task = <<>>
    /\ enc = <<>>
    /\ responded = {}
    /\ evicted = {}
    /\ res = NoReply

\* The v3.4.0 server after a restart
SpecRestart == InitRestart /\ [][Next]_vars

\* C26: an output file in VIDEO_DIR that has no registry entry is deleted by a
\* tick of cleanupOldJobs once it is older than the retention window: the file
\* was written before StartTime, so a tick that runs more than MAX_JOB_AGE
\* after StartTime leaves no such file.
C26_OrphanFileSwept ==
    [][nextTick' # nextTick /\ now - StartTime > MAX_JOB_AGE =>
          OrphanId \notin DOMAIN videoDir']_vars

\* C27, as stated: in the v3.4.0 server a poll of an id that has no entry
\* returns 404 with a body that holds error "Job not found" and the requested
\* id, and leaves the registry unchanged.
C27_NotFoundHoldsId ==
    [][\A id \in PollIds :
          GetStatus(id) /\ ~Has(id) /\ version = "3.4.0" =>
             /\ res'.code = 404
             /\ res'.body.error = "Job not found"
             /\ "id" \in DOMAIN res'.body
             /\ res'.body.id = id
             /\ UNCHANGED <<videoJobs, jobOrder>>]_vars

\* C27, as amended: a poll of an id that has no entry returns 404 with error
\* "Job not found" and leaves the registry unchanged; the body holds nothing
\* else in v3.4.0, and holds the requested id in v3.3.1.
C27_NotFoundReply ==
    [][\A id \in PollIds :
          GetStatus(id) /\ ~Has(id) =>
             /\ res'.code = 404
             /\ res'.body.error = "Job not found"
             /\ version = "3.4.0" => DOMAIN res'.body = {"error"}
             /\ version = "3.3.1" => DOMAIN res'.body = {"error", "id"} /\ res'.body.id = id
             /\ UNCHANGED <<videoJobs, jobOrder>>]_vars

C27_Witness ==
    /\ version = "3.4.0"
    /\ cur.op = "status"
    /\ cur.id \in evicted
    /\ res.code = 404
    /\ "id" \notin DOMAIN res.body

-----------------------------------------------------------------------------
(***************************************************************************)
(* The earlier servers: v3.0.0 (src/unnamed/part_002) and v2.6.4           *)
(* (src/index.js lines 294-453).  They use the same state; `videoJobs` is  *)
(* the Map videoStatus of v2.6.4.  A request handler is one step here (its *)
(* reply is in `res` until MergeReturn); the encoder and the timers run    *)
(* between the steps.                                                      *)
(*   - v3.0.0: processVideo runs two encoder commands, the MP3-to-WAV      *)
(*     conversion (no timeout) and the merge (120000 ms timeout); a        *)
(*     setInterval sweep runs every 1800000 ms.                            *)
(*   - v2.6.4: one exec call (no timeout) whose callback writes the        *)
(*     terminal record and arms a setTimeout of 3600000 ms that deletes    *)
(*     the output file and the entry.                                      *)
(***************************************************************************)

MERGE_TIMEOUT_300 == 120000
CLEANUP_INTERVAL_300 == 1800000
MAX_AGE_300 == 3600000
SIZE_FLOOR_300 == 100000
RETENTION_264 == 3600000

LegacyVersions == {"3.0.0", "2.6.4"}

\* Sizes the encoder leaves in its output file: empty, one byte, and around
\* the floor of v3.0.0
LegacyOutputSizes == {0, 1, SIZE_FLOOR_300 - 1, SIZE_FLOOR_300}

\* v2.6.4 has no setInterval: its nextTick stays at NoTick.
NoTick == 0

InitLegacy ==
    /\ version \in LegacyVersions
    /\ now = StartTime
    /\ nextTick = IF version = "3.0.0" THEN StartTime + CLEANUP_INTERVAL_300 ELSE NoTick
    /\ videoJobs = <<>>
    /\ jobOrder = <<>>
    /\ videoDir = <<>>
    /\ tmpDir = {}
    /\ nextId = FirstId
    /\ cur = Idle
    /\ task = <<>>
    /\ enc = <<>>
    /\ responded = {}
    /\ evicted = {}
    /\ res = NoReply

\* The 4xx/5xx reply of a request the handler does not accept, or NoReply:
\* a missing field (both servers), a field that is not a string (v3.0.0: 400;
\* v2.6.4: Buffer.from throws inside the write try block, 500).
LegacyRejection(image, audio) ==
    IF ~image.present \/ ~audio.present
    THEN [code |-> 400,
          body |-> [error |-> IF version = "3.0.0"
                              THEN "Missing required fields: image and audio (base64)"
                              ELSE "Missing audio or image base64."]]
    ELSE IF ~image.isString \/ ~audio.isString
    THEN IF version = "3.0.0"
         THEN [code |-> 400, body |-> [error |-> "image and audio must be base64 strings"]]
         ELSE [code |-> 500, body |-> [error |-> "File write failed"]]
    ELSE NoReply

\* videoJobs.set(videoId, {status: "processing", ...}); in v3.0.0 the
\* synchronous start of processVideo then sets progress to 10.
LegacyProcessingRecord ==
    IF version = "3.0.0"
    THEN [status |-> "processing", videoId |-> nextId, createdAt |-> now, progress |-> 10]
    ELSE [status |-> "processing", progress |-> 0]

\* The processVideo call (v3.0.0) or the exec call (v2.6.4) the handler starts
LegacyTask ==
    IF version = "3.0.0"
    THEN [pc |-> "convert", started |-> now]
    ELSE [pc |-> "await", started |-> now]

\* POST /api/merge: reject, or write the inputs, insert the entry, answer and
\* start the background work.
LegacyMerge(image, audio) ==
    /\ cur.op = "idle"
    /\ IF LegacyRejection(image, audio) # NoReply
       THEN /\ res' = LegacyRejection(image, audio)
            /\ cur' = Rejected
            /\ UNCHANGED <<videoJobs, jobOrder, tmpDir, nextId, task, enc, responded>>
       ELSE /\ nextId < FirstId + MaxJobs
            /\ nextId' = nextId + 1
            /\ tmpDir' = tmpDir \cup {<<nextId, "png">>, <<nextId, "mp3">>}
            /\ MapSet(nextId, LegacyProcessingRecord)
            /\ res' = ProcessingReply(nextId)
            /\ responded' = responded \cup {nextId}
            /\ task' = (nextId :> LegacyTask) @@ task
            /\ enc' = (nextId :> IF version = "3.0.0" THEN "converting" ELSE "running") @@ enc
            /\ cur' = [op |-> "merge", pc |-> "return", id |-> nextId]
    /\ UNCHANGED <<version, now, nextTick, videoDir, evicted>>


(* The encoder commands of the earlier servers *)

\* The conversion command of v3.0.0 ends: with code 0 or not, having written
\* the WAV file or not.  No timeout is given to this execPromise call.
ConvertExit(id, code, wav) ==
    /\ cur.op = "idle" /\ id \in DOMAIN enc /\ enc[id] = "converting"
    /\ enc' = [enc EXCEPT ![id] = IF code = 0 THEN "converted" ELSE "convertFailed"]
    /\ tmpDir' = IF wav THEN tmpDir \cup {<<id, "wav">>} ELSE tmpDir
    /\ UNCHANGED <<version, now, nextTick, videoJobs, jobOrder, videoDir,
                   nextId, cur, task, responded, evicted, res>>

\* The command that writes the output file (the merge of v3.0.0, the one
\* command line of v2.6.4) creates or extends it.
LegacyEncoderWrite(id, size) ==
    /\ cur.op = "idle" /\ id \in DOMAIN enc /\ enc[id] \in {"merging", "running"}
    /\ size \in LegacyOutputSizes
    /\ id \in DOMAIN videoDir => videoDir[id] < size
    /\ videoDir' = (id :> size) @@ videoDir
    /\ UNCHANGED <<version, now, nextTick, videoJobs, jobOrder, tmpDir,
                   nextId, cur, task, enc, responded, evicted, res>>

\* That command exits by itself, with code 0 or not.
LegacyEncoderExit(id, code) ==
    /\ cur.op = "idle" /\ id \in DOMAIN enc /\ enc[id] \in {"merging", "running"}
    /\ enc' = [enc EXCEPT ![id] = IF code = 0 THEN "exit0" ELSE "failed"]
    /\ UNCHANGED <<version, now, nextTick, videoJobs, jobOrder, videoDir, tmpDir,
                   nextId, cur, task, responded, evicted, res>>

\* execPromise(mergeCmd, {timeout: 120000}) of v3.0.0 kills the merge.
MergeTimeout(id) ==
    /\ cur.op = "idle" /\ id \in DOMAIN enc /\ enc[id] = "merging"
    /\ now - task[id].mergeStarted >= MERGE_TIMEOUT_300
    /\ enc' = [enc EXCEPT ![id] = "killed"]
    /\ UNCHANGED <<version, now, nextTick, videoJobs, jobOrder, videoDir, tmpDir,
                   nextId, cur, task, responded, evicted, res>>

(* processVideo of v3.0.0 *)

\* {status: "error", videoId, error, createdAt: videoJobs.get(videoId)?.createdAt || Date.now()}
ErrorRecord300(id, message) ==
    [status |-> "error", videoId |-> id, error |-> message,
     createdAt |-> IF Has(id) /\ "createdAt" \in DOMAIN videoJobs[id]
                   THEN videoJobs[id].createdAt ELSE now]

\* {...videoJobs.get(videoId), progress: 40}: an entry the sweep has deleted
\* comes back holding the progress alone.
Progress40(id) ==
    IF Has(id) THEN [videoJobs[id] EXCEPT !.progress = 40] ELSE [progress |-> 40]

\* What the first await and the WAV check throw
ConvertThrown(id) ==
    IF enc[id] = "convertFailed" THEN "Audio conversion failed"
    ELSE IF <<id, "wav">> \notin tmpDir THEN "WAV file not created"
    ELSE NoError

\* The finally block: unlink of the image, the MP3 and the WAV file
LegacyInputsRemoved(id) == tmpDir \ {<<id, "png">>, <<id, "mp3">>, <<id, "wav">>}

\* processVideo resumes after the conversion: the catch and finally blocks,
\* or progress 40 and the start of the merge.
ProcessVideoAfterConvert(id) ==
    /\ cur.op = "idle"
    /\ id \in DOMAIN task /\ task[id].pc = "convert"
    /\ enc[id] \in {"converted", "convertFailed"}
    /\ IF ConvertThrown(id) # NoError
       THEN /\ MapSet(id, ErrorRecord300(id, ConvertThrown(id)))
            /\ tmpDir' = LegacyInputsRemoved(id)
            /\ task' = [task EXCEPT ![id].pc = "done"]
            /\ UNCHANGED enc
       ELSE /\ MapSet(id, Progress40(id))
            /\ task' = [task EXCEPT ![id] = [pc |-> "merge", started |-> @.started,
                                             mergeStarted |-> now]]
            /\ enc' = [enc EXCEPT ![id] = "merging"]
            /\ UNCHANGED tmpDir
    /\ UNCHANGED <<version, now, nextTick, videoDir, nextId, cur, responded, evicted, res>>

\* What the second await and the checks of the output throw, in the order
\* of the statements; the last is the read of videoJobs.get(videoId).createdAt.
MergeThrown(id) ==
    IF enc[id] # "exit0" THEN "Video merge failed"
    ELSE IF id \notin DOMAIN videoDir THEN "Output video file not created"
    ELSE IF videoDir[id] = 0 THEN "Output video is empty (0 bytes)"
    ELSE IF videoDir[id] < SIZE_FLOOR_300 THEN "Output video too small (" \o ToString(FloorDiv(videoDir[id] + 512, 1024)) \o " KB)"
    ELSE IF ~Has(id) THEN "Cannot read properties of undefined (reading 'createdAt')"
    ELSE NoError

\* The record of a completed job of v3.0.0; createdAt is that of the entry
\* (undefined, so absent here, when the entry holds none).
CompleteRecord300(id) ==
    [status |-> "complete", videoId |-> id, size |-> videoDir[id],
     sizeKB |-> FloorDiv(videoDir[id] + 512, 1024),
     url |-> "/videos/" \o ToString(id) \o ".mp4",
     processingTime |-> FloorDiv(now - task[id].started + 500, 1000),
     completedAt |-> now]
    @@ (IF "createdAt" \in DOMAIN videoJobs[id]
        THEN [createdAt |-> videoJobs[id].createdAt] ELSE <<>>)

\* processVideo resumes after the merge: the complete record, or the catch
\* block's error record; then the finally block.  Neither touches the
\* output file.
ProcessVideoAfterMerge(id) ==
    /\ cur.op = "idle"
    /\ id \in DOMAIN task /\ task[id].pc = "merge"
    /\ enc[id] \in {"exit0", "failed", "killed"}
    /\ MapSet(id, IF MergeThrown(id) = NoError
                  THEN CompleteRecord300(id)
                  ELSE ErrorRecord300(id, MergeThrown(id)))
    /\ tmpDir' = LegacyInputsRemoved(id)
    /\ task' = [task EXCEPT ![id].pc = "done"]
    /\ UNCHANGED <<version, now, nextTick, videoDir, nextId, cur, enc, responded,
                   evicted, res>>

\* now - job.createdAt > maxAge; false (NaN) for an entry without createdAt
Expired300 ==
    {id \in DOMAIN videoJobs :
        /\ "createdAt" \in DOMAIN videoJobs[id]
        /\ now - videoJobs[id].createdAt > MAX_AGE_300}

\* One run of the setInterval callback of v3.0.0
Cleanup300 ==
    /\ version = "3.0.0"
    /\ cur.op = "idle"
    /\ now = nextTick
    /\ nextTick' = nextTick + CLEANUP_INTERVAL_300
    /\ \E deleted \in {Expired300} :
          /\ videoJobs' = Kept(deleted)
          /\ jobOrder' = SelectSeq(jobOrder, LAMBDA id : id \notin deleted)
          /\ evicted' = evicted \cup deleted
          /\ videoDir' = [i \in DOMAIN videoDir \ deleted |-> videoDir[i]]
    /\ UNCHANGED <<version, now, tmpDir, nextId, cur, task, enc, responded, res>>

(* The exec callback of v2.6.4 and the timer it arms *)

\* The record the callback writes
CallbackRecord264(id) ==
    IF enc[id] # "exit0" THEN [status |-> "error", error |-> "Command failed"]
    ELSE IF id \notin DOMAIN videoDir
    THEN [status |-> "error", error |-> "Output file not created"]
    ELSE IF videoDir[id] > 0
    THEN [status |-> "complete", size |-> videoDir[id],
          url |-> "/videos/" \o ToString(id) \o ".mp4"]
    ELSE [status |-> "error", error |-> "Output file is empty"]

\* exec's callback: the terminal record, unlink of the inputs, and
\* setTimeout(..., 3600000).
ExecCallback(id) ==
    /\ cur.op = "idle"
    /\ id \in DOMAIN task /\ task[id].pc = "await"
    /\ enc[id] \in {"exit0", "failed"}
    /\ MapSet(id, CallbackRecord264(id))
    /\ tmpDir' = LegacyInputsRemoved(id)
    /\ task' = [task EXCEPT ![id] = [pc |-> "timer", started |-> @.started,
                                     timer |-> now + RETENTION_264]]
    /\ UNCHANGED <<version, now, nextTick, videoDir, nextId, cur, enc, responded,
                   evicted, res>>

TimerDue(id) == id \in DOMAIN task /\ task[id].pc = "timer" /\ now = task[id].timer

\* The timer's callback: the file and the entry go only when the file exists.
RetentionTimer(id) ==
    /\ cur.op = "idle"
    /\ TimerDue(id)
    /\ task' = [task EXCEPT ![id].pc = "done"]
    /\ IF id \in DOMAIN videoDir
       THEN /\ videoDir' = [i \in DOMAIN videoDir \ {id} |-> videoDir[i]]
            /\ videoJobs' = Kept({id})
            /\ jobOrder' = SelectSeq(jobOrder, LAMBDA i : i # id)
            /\ evicted' = evicted \cup {id}
       ELSE UNCHANGED <<videoDir, videoJobs, jobOrder, evicted>>
    /\ UNCHANGED <<version, now, nextTick, tmpDir, nextId, cur, enc, responded, res>>

(* Time in the earlier servers *)

LegacyDeadlines ==
    (IF version = "3.0.0" THEN {nextTick} ELSE {})
    \cup {task[id].mergeStarted + MERGE_TIMEOUT_300 :
             id \in {i \in DOMAIN enc : enc[i] = "merging"}}
    \cup {task[id].timer : id \in {i \in DOMAIN task : task[i].pc = "timer"}}

LegacyMaxTime == StartTime + MaxTicks * CLEANUP_INTERVAL_300

\* The callback of an ended command is queued
LegacyPending(id) ==
    \/ task[id].pc = "convert" /\ enc[id] # "converting"
    \/ task[id].pc = "merge" /\ enc[id] # "merging"
    \/ task[id].pc = "await" /\ enc[id] # "running"

LegacyAdvanceTime ==
    /\ cur.op = "idle"
    /\ \A id \in DOMAIN task : ~LegacyPending(id)
    /\ LegacyDeadlines # {}
    /\ \E d \in LegacyDeadlines :
          /\ \A e \in LegacyDeadlines : d <= e
          /\ now < d
          /\ d <= LegacyMaxTime
          /\ now' = d
    /\ UNCHANGED <<version, nextTick, videoJobs, jobOrder, videoDir, tmpDir,
                   nextId, cur, task, enc, responded, evicted, res>>

NextLegacy ==
    \/ \E image, audio \in Payloads : LegacyMerge(image, audio)
    \/ MergeReturn
    \/ \E id \in DOMAIN enc, code \in {0, 1}, wav \in BOOLEAN : ConvertExit(id, code, wav)
    \/ \E id \in DOMAIN enc, size \in LegacyOutputSizes : LegacyEncoderWrite(id, size)
    \/ \E id \in DOMAIN enc, code \in {0, 1} : LegacyEncoderExit(id, code)
    \/ \E id \in DOMAIN enc : MergeTimeout(id)
    \/ \E id \in DOMAIN task : ProcessVideoAfterConvert(id)
    \/ \E id \in DOMAIN task : ProcessVideoAfterMerge(id)
    \/ Cleanup300
    \/ \E id \in DOMAIN task : ExecCallback(id)
    \/ \E id \in DOMAIN task : RetentionTimer(id)
    \/ LegacyAdvanceTime

SpecLegacy == InitLegacy /\ [][NextLegacy]_vars


(* Claims about the earlier servers *)

\* The background work of job id has run to its end: processVideo has
\* returned (v3.0.0), exec's callback has run (v2.6.4).
BackgroundFinished(id) == id \in DOMAIN task /\ task[id].pc \in {"done", "timer"}

HasStatus(id, s) ==
    Has(id) /\ "status" \in DOMAIN videoJobs[id] /\ videoJobs[id].status = s

\* C28: in v3.0.0 and v2.6.4, whenever a job's status is "error" and its
\* background task has finished, no output file of the job remains in
\* VIDEO_DIR, also when the encoder wrote a partial or undersized output.
\* (Violated: neither the catch block of v3.0.0 nor the callback of v2.6.4
\* unlinks the output file.)
C28_ErrorLeavesNoOutput ==
    \A id \in DOMAIN task :
        BackgroundFinished(id) /\ HasStatus(id, "error") => id \notin DOMAIN videoDir

\* C29: in v2.6.4 a job is "complete" only when its output is larger than a
\* floor above the non-empty check: an output of one byte is never complete.
\* (Violated: the callback checks stats.size > 0 only.)
C29_CompleteMeetsFloor ==
    version = "2.6.4" =>
        \A id \in DOMAIN videoJobs : HasStatus(id, "complete") => videoJobs[id].size > 1

\* C30: in v2.6.4, when the one-hour timer of a job fires, the job's entry
\* is removed from videoStatus, whether the job ended complete or in error.
\* (Violated: the timer's callback deletes the entry only inside
\* if (fs.existsSync(outPath)), so an entry without an output file stays.)
C30_TimerRemovesEntry ==
    [][\A id \in DOMAIN task :
          version = "2.6.4" /\ TimerDue(id) /\ task'[id].pc = "done" =>
             id \notin DOMAIN videoJobs']_vars


\* The time at which the command now running for job id was started
InvocationStart(id) == IF enc[id] = "merging" THEN task[id].mergeStarted ELSE task[id].started

\* C31: in v3.0.0 and v2.6.4 every encoder command started for a job is
\* ended by a timeout, so none runs for longer than the timeout the server
\* gives to exec (120000 ms, the only one in these servers).
\* (Violated: execPromise(convertCmd) of v3.0.0 and exec(cmd, callback) of
\* v2.6.4 are called without a timeout; a command that never exits runs on
\* and its job stays "processing".)
C31_InvocationEndedByTimeout ==
    \A id \in DOMAIN enc :
        enc[id] \in {"converting", "merging", "running"} =>
            now - InvocationStart(id) <= MERGE_TIMEOUT_300


\* C32: in v3.3.1, two polls of GET /api/status/:id of a job in a terminal
\* state, made at different times, return identical payloads: no step, the
\* passing of time included, changes the payload a poll of a terminal entry
\* returns.
\* (Violated: the payload of v3.3.1 holds age, computed from Date.now().)
C32_TerminalPayloadStable331 ==
    [][version = "3.3.1" =>
          \A id \in DOMAIN videoJobs :
              Terminal(id) /\ id \in DOMAIN videoJobs' =>
                  StatusReply(id)'.body = StatusReply(id).body]_vars


\* C33: in v3.4.0 the createdAt of a job's entry is the submission time and
\* never changes: whatever the entry's status and however the writes
\* interleave with the ticks, it is the time at which the job was accepted.
\* (Violated: the catch block of processVideo writes createdAt: Date.now()
\* when a tick has deleted the entry while the encoder ran.)
C33_CreatedAtIsSubmissionTime ==
    \A id \in DOMAIN videoJobs \cap DOMAIN task :
        videoJobs[id].createdAt = task[id].started


-----------------------------------------------------------------------------
(***************************************************************************)
(* Failing unlink in cleanupOldJobs.  fs.unlinkSync(videoPath) of the age  *)
(* sweep may throw (the file is busy, the directory is read-only); the     *)
(* sweep catches the exception per entry.                                  *)
(***************************************************************************)

\* Two jobs submitted at start-up and completed; they outlive the tick at
\* LoadedTime (their age is then MAX_JOB_AGE, not more) and expire at the
\* next one.
StaleIds == {-2, -1}

StaleRecord(id) == [LoadedRecord(id) EXCEPT !.createdAt = StartTime]

\* The registry after the tick at LoadedTime and Preloaded submissions made
\* right after it, all completed: the two stale jobs and the jobs
\* 1 .. Preloaded, each with its output file.
InitStale ==
    /\ version = "3.4.0"
    /\ now = LoadedTime
    /\ nextTick = LoadedTime + CLEANUP_INTERVAL
    /\ videoJobs = [id \in StaleIds \cup (1 .. Preloaded) |->
                       IF id \in StaleIds THEN StaleRecord(id) ELSE LoadedRecord(id)]
    /\ jobOrder = <<-2, -1>> \o [i \in 1 .. Preloaded |-> i]
    /\ videoDir = [id \in StaleIds \cup (1 .. Preloaded) |-> SIZE_FLOOR_340]
    /\ tmpDir = {}
    /\ nextId = FirstId
    /\ cur = Idle
    /\ task = <<>>
    /\ enc = <<>>
    /\ responded = StaleIds \cup (1 .. Preloaded)
    /\ evicted = {}
    /\ res = NoReply

\* Without the try/catch around unlinkSync the exception would leave
\* cleanupOldJobs at the first entry whose unlink fails: that entry and the
\* expired ones before it are deleted, nothing after it, and no purge.
TickDeleted_Uncaught(failed) ==
    LET first == CHOOSE i \in 1 .. Len(jobOrder) :
                    /\ jobOrder[i] \in failed
                    /\ \A j \in 1 .. i - 1 : jobOrder[j] \notin failed
    IN  {jobOrder[i] : i \in 1 .. first} \cap ExpiredIds

\* The entries a tick deletes when the unlinks of `failed` throw: the catch
\* block only logs, so the same entries as in any tick.
TickDeleted(failed) == ExpiredIds \cup PurgedIds

\* VIDEO_DIR after that tick: the files of `failed` stay.
UnlinkFailedDir(failed) ==
    [i \in DOMAIN videoDir \ (ExpiredIds \ failed) |-> videoDir[i]]

\* One tick of cleanupOldJobs in which unlinkSync throws for the output
\* files of `failed`
CleanupOldJobsUnlinkFails(failed) ==
    /\ cur.op = "idle"
    /\ now = nextTick
    /\ failed # {}
    /\ failed \subseteq ExpiredIds \cap DOMAIN videoDir
    /\ nextTick' = nextTick + CLEANUP_INTERVAL
    /\ \E deleted \in {TickDeleted(failed)} :
          /\ videoJobs' = Kept(deleted)
          /\ jobOrder' = SelectSeq(jobOrder, LAMBDA id : id \notin deleted)
          /\ evicted' = evicted \cup deleted
    /\ videoDir' = UnlinkFailedDir(failed)
    /\ UNCHANGED <<version, now, tmpDir, nextId, cur, task, enc, responded, res>>

NextUnlinkFaulty ==
    \/ Next
    \/ \E failed \in SUBSET StaleIds : CleanupOldJobsUnlinkFails(failed)

\* The v3.4.0 server from a registry holding stale jobs, with failing unlinks
SpecStale == InitStale /\ [][NextUnlinkFaulty]_vars

\* C34: in a tick of cleanupOldJobs (v3.4.0) a failure to delete the output
\* file of an expired job does not stop the tick: every expired entry is
\* removed in that tick and the capacity purge runs, so at most
\* MAX_ACTIVE_JOBS entries are left.
C34_UnlinkFailureDoesNotStopTick ==
    [][/\ now = nextTick
       /\ nextTick' # nextTick
       /\ ExpiredIds \cap DOMAIN videoDir' # {}
       => /\ ExpiredIds \cap DOMAIN videoJobs' = {}
          /\ Cardinality(DOMAIN videoJobs') <= MAX_ACTIVE_JOBS
          /\ DOMAIN videoJobs \ DOMAIN videoJobs' = ExpiredIds \cup PurgedIds]_vars

\* After a tick: the unlink of one stale job failed (its file is left), the
\* other stale job is gone with its file, and the purge removed an entry.
C34_Witness ==
    /\ StaleIds \subseteq evicted
    /\ -2 \in DOMAIN videoDir
    /\ -1 \notin DOMAIN videoDir
    /\ evicted \ StaleIds # {}
    /\ Cardinality(DOMAIN videoJobs) = MAX_ACTIVE_JOBS


-----------------------------------------------------------------------------
(***************************************************************************)
(* The synchronous variants (src/unnamed/part_004, src/unnamed/part_006):  *)
(* POST /api/merge decodes and writes the inputs, awaits the encoder and   *)
(* answers with the URL of the output, which it keeps in TMP_DIR (here     *)
(* videoDir) and deletes with the inputs 45000 ms later.  There is no job  *)
(* registry.                                                               *)
(***************************************************************************)

SYNC_EXEC_TIMEOUT == 180000
SYNC_CLEANUP_DELAY == 45000

SyncVersions == {"part_004", "part_006"}

\* Longest image string a request holds
MaxImageLen == 3

\* A character that is not a base64 digit: a blank, which the decoder skips
Whitespace == 64

\* The characters of an image string, each as the value of its base64 digit:
\* "i" (34), "V" (21), "A" (0), "E" (4), and a blank
Base64Chars == {34, 21, 0, 4, Whitespace}

\* The image strings of the requests; the empty one stands for a missing or
\* empty field
Images == UNION {[1 .. n -> Base64Chars] : n \in 0 .. MaxImageLen}

\* Other fields a caller may send along: a file name for the image
Names == {"photo.png", "photo.jpg"}

Pow2(n) == IF n = 0 THEN 1 ELSE IF n = 2 THEN 4 ELSE 16

\* Buffer.from(image, "base64"): the digits, six bits each, are joined and
\* cut into bytes; the bits left over are dropped.
Decode(image) ==
    LET digits == SelectSeq(image, LAMBDA c : c # Whitespace)
    IN  [k \in 1 .. (6 * Len(digits)) \div 8 |->
            LET i   == (8 * (k - 1)) \div 6 + 1
                off == (8 * (k - 1)) % 6
            IN  ((digits[i] * 64 + digits[i + 1]) \div Pow2(4 - off)) % 256]

\* imgBuf[i] of JavaScript (i from 0): undefined, here -1, beyond the end
ByteAt(imgBuf, i) == IF i + 1 <= Len(imgBuf) THEN imgBuf[i + 1] ELSE -1

ImageExt_FirstByteOnly(imgBuf) ==
    IF ByteAt(imgBuf, 0) = 137 THEN "png" ELSE "jpg"

\* imgBuf[0] === 0x89 && imgBuf[1] === 0x50 ? ".png" : ".jpg"
ImageExt(imgBuf) ==
    IF ByteAt(imgBuf, 0) = 137 /\ ByteAt(imgBuf, 1) = 80 THEN "png" ELSE "jpg"

InitSync ==
    /\ version \in SyncVersions
    /\ now = StartTime
    /\ nextTick = NoTick
    /\ videoJobs = <<>>
    /\ jobOrder = <<>>
    /\ videoDir = <<>>
    /\ tmpDir = {}
    /\ nextId = FirstId
    /\ cur = Idle
    /\ task = <<>>
    /\ enc = <<>>
    /\ responded = {}
    /\ evicted = {}
    /\ res = NoReply

SyncErrorReply(message) == [code |-> 500, body |-> [error |-> message]]

\* The handler up to its await: the 400 reply, or the image file written
\* under the detected extension, then the audio file (Buffer.from throws for
\* an audio field that is not a string: 500, the image file stays) and the
\* start of the encoder.
SyncMergeReceive(image, audio, name) ==
    /\ cur.op = "idle"
    /\ IF image = <<>> \/ ~audio.present
       THEN /\ res' = [code |-> 400, body |-> [error |-> "Missing audio or image base64"]]
            /\ cur' = Rejected
            /\ UNCHANGED <<tmpDir, nextId, task, enc, responded>>
       ELSE /\ nextId < FirstId + MaxJobs
            /\ nextId' = nextId + 1
            /\ cur' = [op |-> "merge", pc |-> "return", id |-> nextId,
                       image |-> image, name |-> name]
            /\ IF audio.isString
               THEN /\ tmpDir' = tmpDir \cup {<<nextId, ImageExt(Decode(image))>>,
                                              <<nextId, "mp3">>}
                    /\ task' = (nextId :> [pc |-> "await", started |-> now]) @@ task
                    /\ enc' = (nextId :> "running") @@ enc
                    /\ UNCHANGED <<res, responded>>
               ELSE /\ tmpDir' = tmpDir \cup {<<nextId, ImageExt(Decode(image))>>}
                    /\ res' = SyncErrorReply("The first argument must be of type string")
                    /\ responded' = responded \cup {nextId}
                    /\ UNCHANGED <<task, enc>>
    /\ UNCHANGED <<version, now, nextTick, videoJobs, jobOrder, videoDir, evicted>>

\* exec(cmd, {timeout: 180000}, ...) kills the encoder.
SyncExecTimeout(id) ==
    /\ Running(id)
    /\ now - task[id].started >= SYNC_EXEC_TIMEOUT
    /\ enc' = [enc EXCEPT ![id] = "killed"]
    /\ UNCHANGED <<version, now, nextTick, videoJobs, jobOrder, videoDir, tmpDir,
                   nextId, cur, task, responded, evicted, res>>

\* The reply of the handler after its await
SyncReply(id) ==
    IF enc[id] # "exit0" THEN SyncErrorReply("Command failed")
    ELSE IF id \notin DOMAIN videoDir
    THEN SyncErrorReply(IF version = "part_004" THEN "No output created"
                                                ELSE "FFmpeg output not created.")
    ELSE [code |-> 200,
          body |-> [video_url |-> "https://host/" \o ToString(id) \o "-output.mp4"]]

\* The handler resumes: it answers and, after a 200, arms the cleanup timer.
SyncMergeResume(id) ==
    /\ cur.op = "idle"
    /\ id \in DOMAIN task /\ task[id].pc = "await"
    /\ enc[id] # "running"
    /\ res' = SyncReply(id)
    /\ responded' = responded \cup {id}
    /\ cur' = [op |-> "merge", pc |-> "return", id |-> id]
    /\ task' = [task EXCEPT ![id] =
                   IF SyncReply(id).code = 200
                   THEN [pc |-> "timer", started |-> @.started,
                         timer |-> now + SYNC_CLEANUP_DELAY]
                   ELSE [pc |-> "done", started |-> @.started]]
    /\ UNCHANGED <<version, now, nextTick, videoJobs, jobOrder, videoDir, tmpDir,
                   nextId, enc, evicted>>

\* The timer's callback unlinks the image, the audio and the output file.
SyncCleanupTimer(id) ==
    /\ cur.op = "idle"
    /\ TimerDue(id)
    /\ tmpDir' = tmpDir \ {<<id, "png">>, <<id, "jpg">>, <<id, "mp3">>}
    /\ videoDir' = [i \in DOMAIN videoDir \ {id} |-> videoDir[i]]
    /\ task' = [task EXCEPT ![id].pc = "done"]
    /\ UNCHANGED <<version, now, nextTick, videoJobs, jobOrder, nextId, cur, enc,
                   responded, evicted, res>>

SyncDeadlines ==
    {task[id].started + SYNC_EXEC_TIMEOUT : id \in {i \in DOMAIN enc : enc[i] = "running"}}
    \cup {task[id].timer : id \in {i \in DOMAIN task : task[i].pc = "timer"}}

SyncAdvanceTime ==
    /\ cur.op = "idle"
    /\ \A id \in DOMAIN task : ~Pending(id)
    /\ \E d \in SyncDeadlines :
          /\ \A e \in SyncDeadlines : d <= e
          /\ now < d
          /\ d <= MaxTime
          /\ now' = d
    /\ UNCHANGED <<version, nextTick, videoJobs, jobOrder, videoDir, tmpDir,
                   nextId, cur, task, enc, responded, evicted, res>>

NextSync ==
    \/ \E image \in Images, audio \in {Absent, NonString, Payload(MIN_INPUT_BYTES)},
          name \in Names : SyncMergeReceive(image, audio, name)
    \/ MergeReturn
    \/ \E id \in DOMAIN enc, size \in LegacyOutputSizes : LegacyEncoderWrite(id, size)
    \/ \E id \in DOMAIN enc, code \in {0, 1} : LegacyEncoderExit(id, code)
    \/ \E id \in DOMAIN enc : SyncExecTimeout(id)
    \/ \E id \in DOMAIN task : SyncMergeResume(id)
    \/ \E id \in DOMAIN task : SyncCleanupTimer(id)
    \/ SyncAdvanceTime

\* A synchronous variant from start-up
SpecSync == InitSync /\ [][NextSync]_vars

\* The request the handler is working on holds an image string
HandlingImage == cur.op = "merge" /\ "image" \in DOMAIN cur

\* C35: in part_004 and part_006 the image is written with extension .png
\* exactly when its first two decoded bytes are 0x89 0x50, and with .jpg for
\* every other byte sequence, the empty one included, whatever name the
\* caller sends along.
C35_ExtensionFromMagicBytes ==
    version \in SyncVersions /\ HandlingImage =>
        \A imgBuf \in {Decode(cur.image)} :
            LET png == Len(imgBuf) >= 2 /\ imgBuf[1] = 137 /\ imgBuf[2] = 80
            IN  /\ <<cur.id, "png">> \in tmpDir <=> png
                /\ <<cur.id, "jpg">> \in tmpDir <=> ~png

\* A PNG image sent under a name ending in .jpg is written as .png.
C35_Witness ==
    /\ version \in SyncVersions /\ HandlingImage
    /\ cur.name = "photo.jpg"
    /\ Decode(cur.image) = <<137, 80>>
    /\ <<cur.id, "png">> \in tmpDir

=============================================================================
